---- MODULE Spec2Model ----
(***************************************************************************)
(* Human-in-the-loop interrupt detection and resume of the chat client:    *)
(* the useChat hook (thread-change effect, HITL effect with its            *)
(* checkInterrupts tick, resumeRun) and the panel placement of             *)
(* ChatInterface.                                                          *)
(*                                                                         *)
(* JavaScript values are encoded as follows.  Strings that may be missing  *)
(* use the sentinels Undefined and Null.  Objects and arrays that may be   *)
(* missing are records with a tag field t ("undefined", "null", "object",  *)
(* "array"), so that truthiness and the || defaults of the source are      *)
(* computed, not assumed.  Identifiers are non-empty strings.              *)
(***************************************************************************)
EXTENDS Naturals, Sequences, FiniteSets

VARIABLES
    threadId,            \* prop threadId of useChat: a thread or Null
    accessToken,         \* session?.accessToken: a token or Undefined
    enableHITL,          \* useState(true) feature flag
    interruptState,      \* useState<InterruptState | null>
    handledInterruptIds, \* handledInterruptIdsRef.current (the ledger)
    lastInterruptId,     \* lastInterruptIdRef.current (the last-seen marker)
    interval,            \* the setInterval schedule of the live HITL effect, or NoInterval
    inflight,            \* getState calls awaiting their result, in start order
    pc,                  \* "idle"; "immediate" between effect setup and its first checkInterrupts();
                         \* "submit" while resumeRun is inside its stream.submit call
    submitting,          \* the resume command handed to stream.submit and the closure's record
    resumes              \* resume requests in issue order, each with the interruptId of its record
                         \* and how it stands: "sent", "failed", or "old" once its conversation was left

vars == <<threadId, accessToken, enableHITL, interruptState, handledInterruptIds,
          lastInterruptId, interval, inflight, pc, submitting, resumes>>

hitl == <<interruptState, handledInterruptIds, lastInterruptId>>

\* useFileWatcher: the enabled option and the effect's lifecycle, the
\* WebSockets the hook has created, its three refs, the pending reconnect
\* timers and the number of onError reports
VARIABLES watcherEnabled, mounted, sockets, wsRef, timers, reconnectTimeoutRef,
          reconnectAttempts, onErrorCalls

watcher == <<watcherEnabled, mounted, sockets, wsRef, timers, reconnectTimeoutRef,
             reconnectAttempts, onErrorCalls>>

\* the whole state: the chat hook's and the file watcher's
whole == <<vars, watcher>>

----------------------------------------------------------------------------
(* Bounds *)

MaxInflight == 2     \* getState calls in flight at once
MaxResumes == 2      \* resume commands recorded per conversation
MaxMessages == 3     \* processed messages in the rendered list
MaxSockets == 3      \* WebSockets of the file watcher not yet closed
MaxTimers == 2       \* reconnect timers pending at once
MaxErrors == 2       \* onError reports counted

----------------------------------------------------------------------------
(* JavaScript values *)

Undefined == "undefined"
Null == "null"
Undef == [t |-> "undefined"]
NullObj == [t |-> "null"]

TruthyStr(s) == s \notin {Undefined, Null, ""}
TruthyObj(o) == o.t \notin {"undefined", "null"}

Arr(items) == [t |-> "array", items |-> items]

\* x || [] for an array that may be missing
OrEmpty(a) == IF TruthyObj(a) THEN a.items ELSE <<>>

Threads == {"A", "B"}
\* the hook only tests the token for truthiness and hands it to createClient
Tokens == {"t1"}
Ids == {"i1", "i2"}
Decisions == {"approve", "reject", "edit"}
EditedStates == {Undefined, "e1"}

----------------------------------------------------------------------------
(* Interrupt payloads reported by the backend *)

Req(name) == [name |-> name, args |-> "x1"]

\* the object found under interrupt.value (or the interrupt itself)
Body(id, reqs, name) == [t |-> "object", id |-> id, action_requests |-> reqs, name |-> name]

\* { id, value: {...} }
Wrapped(id, reqs, name) ==
    [t |-> "object", id |-> id, value |-> Body(Undefined, reqs, name),
     action_requests |-> Undef, name |-> Undefined]

\* { id, action_requests, name } with no value wrapper
Bare(id, reqs, name) ==
    [t |-> "object", id |-> id, value |-> Undef, action_requests |-> reqs, name |-> name]

P_analyze == Bare("i1", Arr(<<Req("analyze_image")>>), Undefined)
P_email == Wrapped("i2", Undef, "send_email")
P_three == Wrapped("i1", Arr(<<Req("send_email"), Req("analyze_image"), Req("send_email")>>), "review")
P_noid == Bare(Undefined, Arr(<<>>), Undefined)
P_nameless == Wrapped("i2", Arr(<<Req(Undefined)>>), "send_email")

Payloads == {P_analyze, P_email, P_three, P_noid, P_nameless}

\* what the tick reads from the stream object: interrupt, runId, values
NoValues == [t |-> "undefined"]
SomeValues == [t |-> "object", v |-> "s1"]

StreamSnaps ==
    {[interrupt |-> p, runId |-> "r1", values |-> SomeValues] : p \in Payloads \cup {Undef}}
    \cup {[interrupt |-> P_analyze, runId |-> Undefined, values |-> NoValues]}

\* state.interrupts: at most one entry, possibly missing
TopLists == {Undef, Arr(<<>>), Arr(<<P_email>>)}

\* a task of state.tasks: at most one interrupt, possibly missing
Tasks == {[interrupts |-> l] : l \in {Undef, Arr(<<>>), Arr(<<P_three>>), Arr(<<P_noid>>)}}

\* state.tasks: at most two tasks, possibly missing
TaskLists == {Undef, Arr(<<>>)} \cup {Arr(<<a>>) : a \in Tasks}
                \cup {Arr(<<a, b>>) : a \in Tasks, b \in {k \in Tasks : OrEmpty(k.interrupts) # <<>>}}

\* results of client.threads.getState: state objects (those without values
\* carry no tasks), or a rejection
ThreadStates ==
    {[t |-> "object", interrupts |-> i, tasks |-> k, values |-> SomeValues] :
        i \in TopLists, k \in TaskLists}
    \cup {[t |-> "object", interrupts |-> i, tasks |-> Undef, values |-> NullObj] :
        i \in {Arr(<<>>), Arr(<<P_email>>)}}

Rejected == [t |-> "rejected"]

----------------------------------------------------------------------------
(* checkInterrupts: normalisation and candidate selection *)

\* interrupt?.value || interrupt
InterruptValue(interrupt) ==
    IF TruthyObj(interrupt.value) THEN interrupt.value ELSE interrupt

\* interruptValue?.action_requests?.[0]?.name
FirstRequestName(v) ==
    LET reqs == OrEmpty(v.action_requests)
    IN IF Len(reqs) > 0 THEN reqs[1].name ELSE Undefined

\* a nodeName that prefers the top-level name
NodeName_NameFirst(v) ==
    IF TruthyStr(v.name) THEN v.name
    ELSE IF TruthyStr(FirstRequestName(v)) THEN FirstRequestName(v)
    ELSE "unknown"

\* action_requests?.[0]?.name || interruptValue?.name || "unknown"
NodeName(v) ==
    IF TruthyStr(FirstRequestName(v)) THEN FirstRequestName(v)
    ELSE IF TruthyStr(v.name) THEN v.name
    ELSE "unknown"

RECURSIVE FlatMapInterrupts(_)
\* tasks.flatMap(task => task?.interrupts || [])
FlatMapInterrupts(tasks) ==
    IF tasks = <<>> THEN <<>>
    ELSE OrEmpty(tasks[1].interrupts) \o FlatMapInterrupts(Tail(tasks))

\* [...interrupts, ...taskInterrupts]
AllInterrupts(state) ==
    OrEmpty(state.interrupts) \o FlatMapInterrupts(OrEmpty(state.tasks))

\* a detector that never consults the ledger
IsHandled_NoLedger(interruptId, handled) == FALSE

\* a detector that consults the ledger only for the id i2
IsHandled_OnlySecond(interruptId, handled) ==
    interruptId = "i2" /\ interruptId \in handled

\* handledInterruptIdsRef.current.has(interruptId), behind the truthiness test
IsHandled(interruptId, handled) ==
    TruthyStr(interruptId) /\ interruptId \in handled

\* interruptId === lastInterruptIdRef.current
SameAsLast(interruptId, last) == interruptId = last

\* streamAny?.values || {}
EmptyValues == [t |-> "object", v |-> "{}"]

\* the object handed to setInterruptState
InterruptRecord(runId, thread, interrupt, state) ==
    [t |-> "object",
     runId |-> runId,
     threadId |-> thread,
     nodeName |-> NodeName(InterruptValue(interrupt)),
     pendingAction |-> InterruptValue(interrupt),
     state |-> state,
     interruptId |-> interrupt.id]

\* the three cells the detector and the coordinator write
Cells(is, handled, last) == [interruptState |-> is, handled |-> handled, last |-> last]

\* a clear that also empties the ledger
ClearIfSeen_AndLedger(c, cancelled) ==
    IF ~cancelled /\ c.last # Null
    THEN Cells(NullObj, {}, Null)
    ELSE c

\* if (!cancelled && lastInterruptIdRef.current !== null) { clear both }
ClearIfSeen(c, cancelled) ==
    IF ~cancelled /\ c.last # Null
    THEN Cells(NullObj, c.handled, Null)
    ELSE c

\* a publish that leaves the marker as it was
Publish_KeepsMarker(c, cancelled, rec) ==
    IF ~cancelled THEN Cells(rec, c.handled, c.last) ELSE c

\* if (!cancelled) { lastInterruptIdRef.current = interruptId || null; setInterruptState(...) }
Publish(c, cancelled, rec) ==
    IF ~cancelled
    THEN Cells(rec, c.handled, IF TruthyStr(rec.interruptId) THEN rec.interruptId ELSE Null)
    ELSE c

\* a probe that treats an interrupt without an id as no pause
ProbeReportsPause_OnlyWithId(snap) ==
    TruthyObj(snap.interrupt) /\ TruthyStr(snap.interrupt.id)

\* if (interrupt)
ProbeReportsPause(snap) == TruthyObj(snap.interrupt)

\* the branch taken when stream.interrupt is truthy
OnStreamInterrupt(c, cancelled, thread, snap) ==
    LET interruptId == snap.interrupt.id
        rec == InterruptRecord(IF TruthyStr(snap.runId) THEN snap.runId ELSE "unknown",
                               thread, snap.interrupt,
                               IF TruthyObj(snap.values) THEN snap.values
                               ELSE EmptyValues)
    IN IF IsHandled(interruptId, c.handled) THEN ClearIfSeen(c, cancelled)
       ELSE IF SameAsLast(interruptId, c.last) THEN c
       ELSE Publish(c, cancelled, rec)

\* the stream.interrupt branch reaches its setInterruptState({...}) call
StreamTickPublishes(c, cancelled, snap) ==
    /\ ProbeReportsPause(snap)
    /\ ~IsHandled(snap.interrupt.id, c.handled)
    /\ ~SameAsLast(snap.interrupt.id, c.last)
    /\ ~cancelled

\* allInterrupts.length > 0 && !cancelled && state.values
HasCandidate(state, cancelled) ==
    Len(AllInterrupts(state)) > 0 /\ ~cancelled /\ TruthyObj(state.values)

\* the continuation of checkInterrupts after await getState, catch block included
OnThreadState(c, cancelled, thread, state) ==
    IF state = Rejected THEN ClearIfSeen(c, cancelled)
    ELSE IF HasCandidate(state, cancelled)
    THEN LET interrupt == AllInterrupts(state)[1]
             interruptId == interrupt.id
         IN IF IsHandled(interruptId, c.handled) THEN ClearIfSeen(c, cancelled)
            ELSE IF SameAsLast(interruptId, c.last) THEN c
            ELSE Publish(c, cancelled,
                         InterruptRecord("unknown", thread, interrupt, state.values))
    ELSE ClearIfSeen(c, cancelled)

----------------------------------------------------------------------------
(* resumeRun: the decision codec and the ledger bookkeeping *)

\* a resumeRun that asks for a credential only
Resolvable_WithoutRecord(rec, token) == TruthyStr(token)

\* the negation of !interruptState || !accessToken
Resolvable(rec, token) == TruthyObj(rec) /\ TruthyStr(token)

\* interruptState.interruptId
RecordId(rec) == IF TruthyObj(rec) THEN rec.interruptId ELSE Undefined

\* interruptState.pendingAction?.action_requests || []
ActionRequests(rec) ==
    IF TruthyObj(rec) THEN OrEmpty(rec.pendingAction.action_requests) ELSE <<>>

\* a single decision whatever the number of action requests
DecisionEntries_Single(actionRequests, decision) == <<[type |-> decision]>>

\* actionRequests.map(() => ({ type: decision }))
DecisionEntries(actionRequests, decision) ==
    [k \in 1..Len(actionRequests) |-> [type |-> decision]]

\* <<decisions>> for the branch that calls stream.submit, <<>> when no branch does
ResumeValue(rec, decision, editedState) ==
    IF decision = "approve" THEN <<DecisionEntries(ActionRequests(rec), "approve")>>
    ELSE IF decision = "reject" THEN <<DecisionEntries(ActionRequests(rec), "reject")>>
    ELSE <<>>

\* a resumeRun that clears the record without marking it handled
MarkAndClear_NoLedger(c) == Cells(NullObj, c.handled, Null)

\* mark handled, clear the record and the marker
MarkAndClear(c) ==
    Cells(NullObj,
          IF TruthyStr(RecordId(c.interruptState))
          THEN c.handled \cup {RecordId(c.interruptState)} ELSE c.handled,
          Null)

\* a catch block that restores the record but keeps the id in the ledger
Rollback_KeepsLedger(c, rec) ==
    IF TruthyStr(rec.interruptId)
    THEN Cells(rec, c.handled, rec.interruptId)
    ELSE c

\* the catch block: undo for a record that has an interruptId
Rollback(c, rec) ==
    IF TruthyStr(rec.interruptId)
    THEN Cells(rec, c.handled \ {rec.interruptId}, rec.interruptId)
    ELSE c

----------------------------------------------------------------------------
(* useFileWatcher *)

maxReconnectAttempts == 5
reconnectDelay == 3000
NormalClosure == 1000
AbnormalClosure == 1006

\* codes a close event can carry
CloseCodes == {NormalClosure, AbnormalClosure}

\* a free slot; a WebSocket with its readyState, the value of `enabled` its
\* handlers closed over, and whether close() was called on it
NoSocket == [state |-> "none", enabled |-> FALSE, closeCalled |-> FALSE]
NoTimer == [pending |-> FALSE, enabled |-> FALSE, delay |-> 0]

\* the refs and counters connect, disconnect and the handlers work on
Watcher(ss, ref, ts, tref, attempts, errors) ==
    [sockets |-> ss, wsRef |-> ref, timers |-> ts, reconnectTimeoutRef |-> tref,
     reconnectAttempts |-> attempts, onErrorCalls |-> errors]

W == Watcher(sockets, wsRef, timers, reconnectTimeoutRef, reconnectAttempts, onErrorCalls)

SetWatcher(w) ==
    /\ sockets' = w.sockets
    /\ wsRef' = w.wsRef
    /\ timers' = w.timers
    /\ reconnectTimeoutRef' = w.reconnectTimeoutRef
    /\ reconnectAttempts' = w.reconnectAttempts
    /\ onErrorCalls' = w.onErrorCalls

FreeSockets(w) == {s \in 1..MaxSockets : w.sockets[s].state = "none"}
FreeTimers(w) == {t \in 1..MaxTimers : ~w.timers[t].pending}

\* !enabled || wsRef.current?.readyState === WebSocket.OPEN
ConnectReturns(w, enabled) ==
    ~enabled \/ (w.wsRef # 0 /\ w.sockets[w.wsRef].state = "open")

\* connect(), called from a closure whose `enabled` is the argument
connect(w, enabled) ==
    IF ConnectReturns(w, enabled) THEN w
    ELSE LET ws == CHOOSE s \in FreeSockets(w) : \A r \in FreeSockets(w) : s <= r
         IN [w EXCEPT !.sockets[ws] = [state |-> "connecting", enabled |-> enabled,
                                       closeCalled |-> FALSE],
                      !.wsRef = ws]

\* connect() finds room for the WebSocket it creates
CanConnect(w, enabled) == ConnectReturns(w, enabled) \/ FreeSockets(w) # {}

\* ws.close(1000, ...): a socket that is connecting or open starts closing
CloseSocket(ss, s) ==
    IF ss[s].state \in {"connecting", "open"}
    THEN [ss EXCEPT ![s].state = "closing", ![s].closeCalled = TRUE]
    ELSE ss

\* disconnect()
disconnect(w) ==
    LET t == w.reconnectTimeoutRef
        cleared == IF t # 0
                   THEN [w EXCEPT !.timers[t] = NoTimer, !.reconnectTimeoutRef = 0]
                   ELSE w
    IN IF cleared.wsRef # 0
       THEN [cleared EXCEPT !.sockets = CloseSocket(cleared.sockets, cleared.wsRef),
                            !.wsRef = 0]
       ELSE cleared

\* ws.onclose of the socket s, for a close event with this code
onclose(w, s, code) ==
    LET enabled == w.sockets[s].enabled
        gone == [w EXCEPT !.sockets[s] = NoSocket, !.wsRef = 0]
    IN IF code # NormalClosure /\ w.reconnectAttempts < maxReconnectAttempts /\ enabled
       THEN LET t == CHOOSE f \in FreeTimers(w) : \A g \in FreeTimers(w) : f <= g
            IN [gone EXCEPT !.reconnectAttempts = @ + 1,
                            !.timers[t] = [pending |-> TRUE, enabled |-> enabled,
                                           delay |-> reconnectDelay],
                            !.reconnectTimeoutRef = t]
       ELSE IF w.reconnectAttempts >= maxReconnectAttempts /\ enabled
       THEN [gone EXCEPT !.onErrorCalls = @ + 1]
       ELSE gone

\* the handler finds room for what it records
CanClose(w, s, code) ==
    IF code # NormalClosure /\ w.reconnectAttempts < maxReconnectAttempts
       /\ w.sockets[s].enabled
    THEN FreeTimers(w) # {}
    ELSE w.onErrorCalls < MaxErrors

WatcherTypeOK ==
    /\ watcherEnabled \in BOOLEAN
    /\ mounted \in {"no", "yes", "unmounted"}
    /\ wsRef \in 0..MaxSockets
    /\ reconnectTimeoutRef \in 0..MaxTimers
    /\ reconnectAttempts \in 0..maxReconnectAttempts
    /\ onErrorCalls \in 0..MaxErrors

WatcherInit ==
    /\ watcherEnabled = TRUE
    /\ mounted = "no"
    /\ sockets = [s \in 1..MaxSockets |-> NoSocket]
    /\ wsRef = 0
    /\ timers = [t \in 1..MaxTimers |-> NoTimer]
    /\ reconnectTimeoutRef = 0
    /\ reconnectAttempts = 0
    /\ onErrorCalls = 0

----------------------------------------------------------------------------
(* State *)

NoInterval == [t |-> "null"]

TypeOK ==
    /\ threadId \in Threads \cup {Null}
    /\ accessToken \in Tokens \cup {Undefined}
    /\ enableHITL \in BOOLEAN
    /\ handledInterruptIds \subseteq Ids
    /\ lastInterruptId \in Ids \cup {Null}
    /\ pc \in {"idle", "immediate", "submit"}
    /\ (pc = "submit") = TruthyObj(submitting)
    /\ Len(inflight) <= MaxInflight
    /\ Len(resumes) <= MaxResumes

Init ==
    /\ threadId = Null
    /\ accessToken = Undefined
    /\ enableHITL = TRUE
    /\ interruptState = NullObj
    /\ handledInterruptIds = {}
    /\ lastInterruptId = Null
    /\ interval = NoInterval
    /\ inflight = <<>>
    /\ pc = "idle"
    /\ submitting = NullObj
    /\ resumes = <<>>
    /\ WatcherInit

Current == Cells(interruptState, handledInterruptIds, lastInterruptId)

SetCells(c) ==
    /\ interruptState' = c.interruptState
    /\ handledInterruptIds' = c.handled
    /\ lastInterruptId' = c.last

\* interruptState as returned by the hook: enableHITL ? interruptState : null
ExposedInterruptState == IF enableHITL THEN interruptState ELSE NullObj

----------------------------------------------------------------------------
(* Effects *)

\* a guard that ignores the feature flag
Inert_IgnoresFlag(enabled, thread, token) ==
    ~TruthyStr(thread) \/ ~TruthyStr(token)

\* a cleanup that only clears the interval
CancelAll_Forgets(calls) == calls

\* cleanup of the HITL effect: cancelled = true for every call the closure started
CancelAll(calls) == [k \in DOMAIN calls |-> [calls[k] EXCEPT !.cancelled = TRUE]]

\* the guard that keeps the detector inert
Inert(enabled, thread, token) ==
    ~enabled \/ ~TruthyStr(thread) \/ ~TruthyStr(token)

\* a thread change that keeps the record and the marker
ResetForThread_KeepsRecord(c) == Cells(c.interruptState, {}, c.last)

\* a thread change that keeps the ledger
ResetForThread_KeepsLedger(c) == Cells(NullObj, c.handled, Null)

\* the thread-change effect
ResetForThread(c) == Cells(NullObj, {}, Null)

\* the HITL effect re-run with (enabled, thread, token): cleanup of the previous
\* run, then either the inert branch or a new closure whose first
\* checkInterrupts() is the next step (pc = "immediate"); the schedule created
\* right after that call is recorded together with the closure
RunHITLEffect(c, enabled, thread, token) ==
    /\ inflight' = CancelAll(inflight)
    /\ IF Inert(enabled, thread, token)
       THEN /\ SetCells(Cells(NullObj, c.handled, Null))
            /\ interval' = NoInterval
            /\ pc' = "idle"
       ELSE /\ SetCells(c)
            /\ interval' = [t |-> "object", threadId |-> thread]
            /\ pc' = "immediate"

\* the threadId prop changes: both effects that depend on it run, in source order
SetThreadId(thread) ==
    /\ UNCHANGED watcher
    /\ pc = "idle"
    /\ thread # threadId
    /\ threadId' = thread
    /\ RunHITLEffect(ResetForThread(Current), enableHITL, thread, accessToken)
    /\ resumes' = [k \in DOMAIN resumes |-> [resumes[k] EXCEPT !.status = "old"]]
    /\ UNCHANGED <<accessToken, enableHITL, submitting>>

\* the session's access token changes; a token replaced by another token is
\* the step from "t1" to "t1"
SetAccessToken(token) ==
    /\ UNCHANGED watcher
    /\ pc = "idle"
    /\ token # accessToken \/ TruthyStr(token)
    /\ accessToken' = token
    /\ RunHITLEffect(Current, enableHITL, threadId, token)
    /\ UNCHANGED <<threadId, enableHITL, submitting, resumes>>

\* setEnableHITL(enabled)
SetEnableHITL(enabled) ==
    /\ UNCHANGED watcher
    /\ pc = "idle"
    /\ enabled # enableHITL
    /\ enableHITL' = enabled
    /\ RunHITLEffect(Current, enabled, threadId, accessToken)
    /\ UNCHANGED <<threadId, accessToken, submitting, resumes>>

----------------------------------------------------------------------------
(* The detector *)

\* one run of checkInterrupts up to its return or its await: the immediate call
\* of the effect, or a firing of the interval
CheckInterrupts(snap) ==
    /\ UNCHANGED watcher
    /\ pc = "immediate" \/ (pc = "idle" /\ interval # NoInterval)
    /\ pc' = "idle"
    /\ IF ProbeReportsPause(snap)
       THEN /\ SetCells(OnStreamInterrupt(Current, FALSE, interval.threadId, snap))
            /\ UNCHANGED inflight
       ELSE /\ Len(inflight) < MaxInflight
            /\ inflight' = Append(inflight, [threadId |-> interval.threadId, cancelled |-> FALSE,
                                            overtaken |-> FALSE])
            /\ UNCHANGED hitl
    /\ UNCHANGED <<threadId, accessToken, enableHITL, interval, submitting, resumes>>

RemoveAt(seq, k) == SubSeq(seq, 1, k - 1) \o SubSeq(seq, k + 1, Len(seq))

\* history: when the call k of the running closure resolves, the calls the
\* closure started before it and that are still pending have been overtaken
Overtake(calls, k, state) ==
    [j \in DOMAIN calls |->
        IF j < k /\ ~calls[k].cancelled /\ state # Rejected
        THEN [calls[j] EXCEPT !.overtaken = TRUE]
        ELSE calls[j]]

\* a getState call settles and the rest of its checkInterrupts run executes
GetStateSettles(k, state) ==
    /\ UNCHANGED watcher
    /\ pc = "idle"
    /\ k \in DOMAIN inflight
    /\ SetCells(OnThreadState(Current, inflight[k].cancelled, inflight[k].threadId, state))
    /\ inflight' = RemoveAt(Overtake(inflight, k, state), k)
    /\ UNCHANGED <<threadId, accessToken, enableHITL, interval, pc, submitting, resumes>>

----------------------------------------------------------------------------
(* The resume coordinator *)

\* resumeRun(decision, editedState) up to its stream.submit call, or to its
\* end when no branch submits
ResumeRun(decision, editedState) ==
    /\ UNCHANGED watcher
    /\ pc = "idle"
    /\ IF ~Resolvable(interruptState, accessToken)
       THEN UNCHANGED vars
       ELSE LET value == ResumeValue(interruptState, decision, editedState)
            IN /\ SetCells(MarkAndClear(Current))
               /\ IF value = <<>>
                  THEN UNCHANGED <<pc, submitting>>
                  ELSE /\ Len(resumes) < MaxResumes
                       /\ pc' = "submit"
                       /\ submitting' = [t |-> "object", record |-> interruptState,
                                         decisions |-> value[1]]
               /\ UNCHANGED <<threadId, accessToken, enableHITL, interval, inflight,
                              resumes>>

\* stream.submit returns or throws, and resumeRun runs to its end
SubmitEnds(outcome) ==
    /\ UNCHANGED watcher
    /\ pc = "submit"
    /\ pc' = "idle"
    /\ submitting' = NullObj
    /\ SetCells(IF outcome = "throws" THEN Rollback(Current, submitting.record) ELSE Current)
    /\ resumes' = Append(resumes, [interruptId |-> submitting.record.interruptId,
                                   status |-> IF outcome = "throws" THEN "failed" ELSE "sent"])
    /\ UNCHANGED <<threadId, accessToken, enableHITL, interval, inflight>>

\* the stream reports the failure of a resume run to onError, which only logs
StreamOnError(k) ==
    /\ UNCHANGED watcher
    /\ pc = "idle"
    /\ k \in DOMAIN resumes
    /\ resumes[k].status = "sent"
    /\ resumes' = [resumes EXCEPT ![k].status = "failed"]
    /\ UNCHANGED <<threadId, accessToken, enableHITL, interruptState, handledInterruptIds,
                   lastInterruptId, interval, inflight, pc, submitting>>

----------------------------------------------------------------------------

Next ==
    \/ \E thread \in Threads \cup {Null} : SetThreadId(thread)
    \/ \E token \in Tokens \cup {Undefined} : SetAccessToken(token)
    \/ \E enabled \in BOOLEAN : SetEnableHITL(enabled)
    \/ \E snap \in StreamSnaps : CheckInterrupts(snap)
    \/ \E k \in 1..MaxInflight, state \in ThreadStates \cup {Rejected} : GetStateSettles(k, state)
    \/ \E decision \in Decisions, editedState \in EditedStates : ResumeRun(decision, editedState)
    \/ \E outcome \in {"returns", "throws"} : SubmitEnds(outcome)
    \/ \E k \in 1..MaxResumes : StreamOnError(k)

Spec == Init /\ [][Next]_whole

----------------------------------------------------------------------------
(* The file watcher's steps *)

\* the effect runs for `enabled`: cleanup of the previous run, then connect()
\* or disconnect(); it re-runs when enabled, onFileChanged or onError change
RunWatcherEffect(enabled) ==
    /\ mounted \in {"no", "yes"}
    /\ CanConnect(disconnect(W), enabled)
    /\ mounted' = "yes"
    /\ watcherEnabled' = enabled
    /\ SetWatcher(IF enabled THEN connect(disconnect(W), enabled)
                  ELSE disconnect(disconnect(W)))
    /\ UNCHANGED vars

\* the component unmounts: the effect's cleanup
Unmount ==
    /\ mounted = "yes"
    /\ mounted' = "unmounted"
    /\ SetWatcher(disconnect(W))
    /\ UNCHANGED <<watcherEnabled, vars>>

\* the caller invokes the returned reconnect
Reconnect ==
    /\ mounted = "yes"
    /\ CanConnect(W, watcherEnabled)
    /\ SetWatcher(connect(W, watcherEnabled))
    /\ UNCHANGED <<watcherEnabled, mounted, vars>>

\* the caller invokes the returned disconnect
Disconnect ==
    /\ mounted = "yes"
    /\ SetWatcher(disconnect(W))
    /\ UNCHANGED <<watcherEnabled, mounted, vars>>

\* the open event of the socket s
SocketOpens(s) ==
    /\ sockets[s].state = "connecting"
    /\ sockets' = [sockets EXCEPT ![s].state = "open"]
    /\ reconnectAttempts' = 0
    /\ UNCHANGED <<watcherEnabled, mounted, wsRef, timers, reconnectTimeoutRef,
                   onErrorCalls, vars>>

\* the close event of the socket s
SocketCloses(s, code) ==
    /\ sockets[s].state \in {"connecting", "open", "closing"}
    /\ CanClose(W, s, code)
    /\ SetWatcher(onclose(W, s, code))
    /\ UNCHANGED <<watcherEnabled, mounted, vars>>

\* the reconnect timer t fires and calls connect()
TimerFires(t) ==
    /\ timers[t].pending
    /\ CanConnect(W, timers[t].enabled)
    /\ SetWatcher(connect([W EXCEPT !.timers[t] = NoTimer], timers[t].enabled))
    /\ UNCHANGED <<watcherEnabled, mounted, vars>>

WatcherNext ==
    \/ \E enabled \in BOOLEAN : RunWatcherEffect(enabled)
    \/ Unmount
    \/ Reconnect
    \/ Disconnect
    \/ \E s \in 1..MaxSockets : SocketOpens(s)
    \/ \E s \in 1..MaxSockets, code \in CloseCodes : SocketCloses(s, code)
    \/ \E t \in 1..MaxTimers : TimerFires(t)

WatcherSpec == Init /\ [][WatcherNext]_whole

----------------------------------------------------------------------------
(* ChatInterface: where the approval panel is rendered *)

MessageTypes == {"ai", "human"}

\* processedMessages: the entries of messageMap, one per ai or human message
MessageLists ==
    UNION {[1..n -> [type : MessageTypes]] : n \in 0..MaxMessages}

\* a panel under every ai message
NotOnlyLast_ShouldShowInterrupt(record, messages, index) ==
    TruthyObj(record) /\ messages[index].type = "ai"

\* interruptState && isLastMessage && data.message.type === "ai"
ShouldShowInterrupt(record, messages, index) ==
    TruthyObj(record) /\ index = Len(messages) /\ messages[index].type = "ai"

\* the indexes of processedMessages.map(...) that render a HITLPanel
Panels(record, messages) ==
    {index \in 1..Len(messages) : ShouldShowInterrupt(record, messages, index)}

----------------------------------------------------------------------------
(* Properties *)

Displayed == TruthyObj(interruptState)

\* a record with this interruptId is displayed
Shows(id) == Displayed /\ interruptState.interruptId = id

\* C1: an interruptId whose resume request was sent by approve or reject and
\* has not failed is never displayed again in the same conversation.
C1_NoRedisplayAfterResume ==
    \A k \in DOMAIN resumes :
        (resumes[k].status = "sent" /\ TruthyStr(resumes[k].interruptId))
            => ~Shows(resumes[k].interruptId)

\* C1 witness: i1 was resumed in this conversation and the detector has since
\* published a record for another interrupt.
C1_Witness ==
    /\ \E k \in DOMAIN resumes : resumes[k].status = "sent" /\ resumes[k].interruptId = "i1"
    /\ Shows("i2")
    /\ "i1" \in handledInterruptIds

\* the resume request k fails in this step
FailsNow(k) ==
    /\ k \in DOMAIN resumes'
    /\ resumes'[k].status = "failed"
    /\ (k \in DOMAIN resumes => resumes[k].status = "sent")

\* C2: whenever a resume request for a record with an interruptId fails, that
\* record is displayed again and its interruptId is out of the ledger, so that
\* resumeRun can be called for it again.
C2_RetryAfterFailure ==
    [][\A k \in 1..MaxResumes :
          (FailsNow(k) /\ TruthyStr(resumes'[k].interruptId))
              => /\ TruthyObj(interruptState')
                 /\ interruptState'.interruptId = resumes'[k].interruptId
                 /\ resumes'[k].interruptId \notin handledInterruptIds']_vars

\* every getState call that is not cancelled belongs to the live schedule,
\* which is the schedule of the current thread, token and flag
LiveCallsAreCurrent ==
    /\ \A k \in DOMAIN inflight :
          ~inflight[k].cancelled => (interval # NoInterval /\ inflight[k].threadId = threadId)
    /\ interval # NoInterval =>
          (interval.threadId = threadId /\ ~Inert(enableHITL, threadId, accessToken))

\* C3: a getState call started under a thread, flag or token that has since
\* changed settles without touching the record, the ledger or the marker; and
\* calls are only ever started by the schedule of the current context.
C3_StaleTickHasNoEffect ==
    /\ []LiveCallsAreCurrent
    /\ [][\A k \in DOMAIN inflight :
             (inflight[k].cancelled /\ inflight' = RemoveAt(inflight, k))
                 => UNCHANGED hitl]_vars

\* C3 witness: a call started under thread A is still in flight, cancelled,
\* while thread B displays a record of its own.
C3_Witness ==
    /\ threadId = "B"
    /\ \E k \in DOMAIN inflight : inflight[k].cancelled /\ inflight[k].threadId = "A"
    /\ Displayed
    /\ interruptState.threadId = "B"

\* C4: a change of threadId empties the ledger, clears the record and resets
\* the marker before the next checkInterrupts runs, so that right after it any
\* interrupt with an id, reported on either channel, is displayed.
C4_ThreadChangeResets ==
    [][threadId' # threadId =>
         /\ handledInterruptIds' = {}
         /\ interruptState' = NullObj
         /\ lastInterruptId' = Null
         /\ \A snap \in StreamSnaps :
               (TruthyObj(snap.interrupt) /\ TruthyStr(snap.interrupt.id))
                   => OnStreamInterrupt(Cells(interruptState', handledInterruptIds',
                                              lastInterruptId'),
                                        FALSE, threadId', snap).interruptState.interruptId
                        = snap.interrupt.id]_vars

\* C4 witness: i1 was resumed in a conversation that has been left, and the
\* current conversation displays a record with the same id.
C4_Witness ==
    /\ \E k \in DOMAIN resumes : resumes[k].status = "old" /\ resumes[k].interruptId = "i1"
    /\ Shows("i1")
    /\ interruptState.threadId = threadId

\* C5: while resumeRun is inside stream.submit the interruptId of its record is
\* already in the ledger and the record and the marker are already cleared;
\* and no getState call that settles afterwards, whenever it was started,
\* displays an interrupt whose resume request is out.
C5_ClearedBeforeSubmit ==
    /\ [](pc = "submit" =>
            /\ ~Displayed
            /\ lastInterruptId = Null
            /\ TruthyStr(submitting.record.interruptId)
                  => submitting.record.interruptId \in handledInterruptIds)
    /\ [][Len(inflight') < Len(inflight) =>
            \A k \in DOMAIN resumes :
                (resumes[k].status = "sent" /\ TruthyStr(resumes[k].interruptId))
                    => ~(TruthyObj(interruptState')
                         /\ interruptState'.interruptId = resumes[k].interruptId)]_vars

\* C5 witness: resumeRun is inside stream.submit for a record with an id while
\* a getState call started before it is still in flight.
C5_Witness ==
    /\ pc = "submit"
    /\ TruthyStr(submitting.record.interruptId)
    /\ \E k \in DOMAIN inflight : ~inflight[k].cancelled

\* C6: whatever the message list, at most one approval panel is rendered, and
\* it is rendered only for the single record the hook exposes.
C6_AtMostOnePanel ==
    \A messages \in MessageLists :
        /\ Cardinality(Panels(ExposedInterruptState, messages)) <= 1
        /\ Panels(ExposedInterruptState, messages) # {} => Displayed

\* C6 witness: a record is displayed and a list with two ai messages renders
\* one panel.
C6_Witness ==
    /\ Displayed
    /\ Cardinality(Panels(ExposedInterruptState,
                          <<[type |-> "ai"], [type |-> "human"], [type |-> "ai"]>>)) = 1

\* resumeRun(decision, editedState) is called on a displayed record with a token
Resolves(decision, editedState) ==
    /\ Displayed
    /\ TruthyStr(accessToken)
    /\ ResumeRun(decision, editedState)

\* C7: resumeRun("edit", editedArguments) hands stream.submit one entry per
\* action request, each of kind edit and carrying the edited arguments.
C7_EditIssuesResume ==
    [][\A editedState \in EditedStates :
          Resolves("edit", editedState)
              => /\ pc' = "submit"
                 /\ Len(submitting'.decisions) = Len(ActionRequests(interruptState))
                 /\ \A j \in DOMAIN submitting'.decisions :
                       /\ submitting'.decisions[j].type = "edit"
                       /\ submitting'.decisions[j].edited_args = editedState]_vars

\* C8: approve and reject hand stream.submit exactly one entry per action
\* request of the displayed record, all of the decision's kind: three approve
\* entries for the three requests of P_three, none for a record without
\* requests.
C8_OneEntryPerRequest ==
    [][\A decision \in {"approve", "reject"}, editedState \in EditedStates :
          Resolves(decision, editedState)
              => LET requests == OrEmpty(interruptState.pendingAction.action_requests)
                 IN /\ pc' = "submit"
                    /\ submitting'.record = interruptState
                    /\ Len(submitting'.decisions) = Len(requests)
                    /\ \A j \in 1..Len(requests) :
                          submitting'.decisions[j] = [type |-> decision]
                    /\ (interruptState.pendingAction = InterruptValue(P_three)
                        /\ decision = "approve")
                          => submitting'.decisions = <<[type |-> "approve"],
                                                       [type |-> "approve"],
                                                       [type |-> "approve"]>>]_vars

\* C8 witness: stream.submit is being called with three entries for a record
\* with three action requests.
C8_Witness ==
    /\ pc = "submit"
    /\ Len(ActionRequests(submitting.record)) = 3
    /\ Len(submitting.decisions) = 3

\* the interrupt a tick reports is the one on display, and is not handled
OnDisplay(interrupt) ==
    /\ TruthyStr(interrupt.id)
    /\ Shows(interrupt.id)
    /\ interrupt.id \notin handledInterruptIds

\* C9: a tick that reports, on either channel, the interruptId of the record
\* on display (not in the ledger) leaves the record and the marker as they are.
C9_SecondTickChangesNothing ==
    [][/\ \A snap \in StreamSnaps :
             (TruthyObj(snap.interrupt) /\ OnDisplay(snap.interrupt) /\ CheckInterrupts(snap))
                 => UNCHANGED <<interruptState, lastInterruptId>>
       /\ \A k \in DOMAIN inflight, state \in ThreadStates :
             (/\ ~inflight[k].cancelled
              /\ AllInterrupts(state) # <<>>
              /\ OnDisplay(AllInterrupts(state)[1])
              /\ GetStateSettles(k, state))
                 => UNCHANGED <<interruptState, lastInterruptId>>]_vars

\* the first entry of the top-level interrupts, or else the first interrupt of
\* the first task that has one
FirstCandidate(state) ==
    LET top == OrEmpty(state.interrupts)
        tasks == OrEmpty(state.tasks)
        holders == {j \in 1..Len(tasks) : OrEmpty(tasks[j].interrupts) # <<>>}
        j == CHOOSE h \in holders : \A g \in holders : h <= g
    IN IF top # <<>> THEN top[1] ELSE OrEmpty(tasks[j].interrupts)[1]

\* some interrupt is listed at the top level or under a task
HasCandidates(state) ==
    \/ OrEmpty(state.interrupts) # <<>>
    \/ \E j \in 1..Len(OrEmpty(state.tasks)) : OrEmpty(OrEmpty(state.tasks)[j].interrupts) # <<>>

\* C10: when a getState call of the current schedule succeeds with at least one
\* candidate, the first candidate (top level before tasks) is the one
\* normalised and, unless handled or already displayed, published; the result
\* {interrupts: [{id: "i2", value: {name: "send_email"}}], tasks: []} displays
\* nodeName send_email with interruptId i2.
C10_FirstCandidatePublished ==
    [][\A k \in DOMAIN inflight, state \in ThreadStates :
          (~inflight[k].cancelled /\ HasCandidates(state) /\ GetStateSettles(k, state))
              => LET first == FirstCandidate(state)
                     handled == TruthyStr(first.id) /\ first.id \in handledInterruptIds
                     displayed == Shows(first.id) \/ lastInterruptId = first.id
                 IN (~handled /\ ~displayed)
                        => /\ TruthyObj(interruptState')
                           /\ interruptState'.interruptId = first.id
                           /\ interruptState'.pendingAction = InterruptValue(first)
                           /\ interruptState'.nodeName = NodeName(InterruptValue(first))
                           /\ first = P_email
                                 => /\ interruptState'.nodeName = "send_email"
                                    /\ interruptState'.interruptId = "i2"]_vars

\* C11: when a getState call of the current schedule succeeds with no
\* candidate at all, no record is displayed afterwards, whatever record, with
\* or without an interruptId, was displayed before.
C11_EmptyFallbackClears ==
    [][\A k \in DOMAIN inflight, state \in ThreadStates :
          (~inflight[k].cancelled /\ ~HasCandidates(state) /\ GetStateSettles(k, state))
              => ~TruthyObj(interruptState')]_vars

\* C12: when stream.submit fails inside resumeRun, the record, the ledger and
\* the marker are again what they were when resumeRun was called, for a record
\* with or without an interruptId, and resumeRun ends normally.
C12_FailureRestores ==
    [][(pc = "submit" /\ Len(resumes') > Len(resumes)
        /\ resumes'[Len(resumes')].status = "failed")
          => LET rec == submitting.record
             IN /\ pc' = "idle"
                /\ interruptState' = rec
                /\ handledInterruptIds' = handledInterruptIds \ {rec.interruptId}
                /\ lastInterruptId' = IF TruthyStr(rec.interruptId)
                                      THEN rec.interruptId ELSE Null]_vars

\* C13: a tick of the current schedule that observes, on either channel, an
\* interrupt whose id is in the ledger ends with no record displayed,
\* whatever was displayed before.
C13_HandledObservationClears ==
    [][/\ \A snap \in StreamSnaps :
             (/\ TruthyObj(snap.interrupt)
              /\ TruthyStr(snap.interrupt.id)
              /\ snap.interrupt.id \in handledInterruptIds
              /\ CheckInterrupts(snap))
                 => ~TruthyObj(interruptState')
       /\ \A k \in DOMAIN inflight, state \in ThreadStates :
             (/\ ~inflight[k].cancelled
              /\ HasCandidates(state)
              /\ TruthyStr(FirstCandidate(state).id)
              /\ FirstCandidate(state).id \in handledInterruptIds
              /\ GetStateSettles(k, state))
                 => ~TruthyObj(interruptState')]_vars

\* C14: when a getState call of the current schedule rejects, no record is
\* displayed afterwards, the ledger is as before, and the interval is still
\* scheduled.
C14_RejectionClears ==
    [][\A k \in DOMAIN inflight :
          (~inflight[k].cancelled /\ GetStateSettles(k, Rejected))
              => /\ ~TruthyObj(interruptState')
                 /\ handledInterruptIds' = handledInterruptIds
                 /\ interval' = interval
                 /\ interval' # NoInterval]_vars

\* the detector has nothing to run on
InertNow == ~enableHITL \/ threadId = Null \/ accessToken = Undefined

\* C15: while the feature is disabled or the thread id or the token is missing,
\* no interval is scheduled, no checkInterrupts call is due or able to publish,
\* no record is displayed, the marker is null and the hook exposes no record.
C15_InertDetector ==
    InertNow =>
        /\ interval = NoInterval
        /\ pc # "immediate"
        /\ \A k \in DOMAIN inflight : inflight[k].cancelled
        /\ ~Displayed
        /\ lastInterruptId = Null
        /\ ExposedInterruptState = NullObj

\* C15 witness: the feature was disabled in a conversation with a token, a
\* handled interrupt and a getState call still in flight.
C15_Witness ==
    /\ ~enableHITL
    /\ threadId # Null
    /\ accessToken # Undefined
    /\ handledInterruptIds # {}
    /\ \E k \in DOMAIN inflight : inflight[k].cancelled

\* C16: resumeRun called without a displayed record or without a token
\* changes neither the ledger, the record nor the marker and calls
\* stream.submit not at all.
C16_ResolveWithoutRecordIsNoOp ==
    [][\A decision \in Decisions, editedState \in EditedStates :
          (/\ ~Displayed \/ ~TruthyStr(accessToken)
           /\ ResumeRun(decision, editedState))
              => UNCHANGED <<hitl, pc, submitting, resumes>>]_vars

\* C16 witness: resumeRun can be called, a token is there, no record is
\* displayed and an earlier record of this conversation was resolved.
C16_Witness ==
    /\ pc = "idle"
    /\ ~Displayed
    /\ TruthyStr(accessToken)
    /\ \E k \in DOMAIN resumes : resumes[k].status = "sent"

\* first action request's name, else the top-level name, else "unknown"
ExpectedNodeName(v) ==
    LET named == v.action_requests.t = "array"
                 /\ v.action_requests.items # <<>>
                 /\ v.action_requests.items[1].name # Undefined
    IN IF named THEN v.action_requests.items[1].name
       ELSE IF v.name # Undefined THEN v.name
       ELSE "unknown"

\* C17: every displayed record has the nodeName of its pending action (first
\* action request's name, else top-level name, else "unknown"); a tick that
\* publishes from stream.interrupt takes interruptId from the interrupt's id
\* and displays payloads without action requests too; the interrupt
\* {id: i1, action_requests: [{name: analyze_image}]} gives analyze_image, i1.
C17_Normalisation ==
    /\ [](Displayed => interruptState.nodeName = ExpectedNodeName(interruptState.pendingAction))
    /\ [][\A snap \in StreamSnaps :
             (/\ interruptState' # interruptState
              /\ CheckInterrupts(snap))
                 => /\ TruthyObj(interruptState') =>
                          /\ interruptState'.interruptId = snap.interrupt.id
                          /\ interruptState'.pendingAction
                               = (IF snap.interrupt.value.t = "object"
                                  THEN snap.interrupt.value ELSE snap.interrupt)
                    /\ (snap.interrupt = P_analyze /\ "i1" \notin handledInterruptIds)
                          => /\ interruptState'.nodeName = "analyze_image"
                             /\ interruptState'.interruptId = "i1"
                    /\ (snap.interrupt \in {P_email, P_noid}
                        /\ ~(snap.interrupt.id \in handledInterruptIds))
                          => TruthyObj(interruptState')]_vars

\* C17 witness: the record of the interrupt i1 with one analyze_image request
\* is displayed, published from stream.interrupt.
C17_Witness ==
    /\ Shows("i1")
    /\ interruptState.nodeName = "analyze_image"
    /\ interruptState.runId = "r1"
    /\ Len(ActionRequests(interruptState)) = 1

\* C18: the ledger never holds an absent id, and a tick whose
\* stream.interrupt carries, without an id, the pending action of the
\* displayed id-less record does not call setInterruptState again.
C18_IdlessPublishedOnce ==
    /\ \A id \in handledInterruptIds : TruthyStr(id)
    /\ \A snap \in StreamSnaps :
          (/\ pc = "idle"
           /\ interval # NoInterval
           /\ Displayed
           /\ ~TruthyStr(interruptState.interruptId)
           /\ ProbeReportsPause(snap)
           /\ ~TruthyStr(snap.interrupt.id)
           /\ InterruptValue(snap.interrupt) = interruptState.pendingAction)
              => ~StreamTickPublishes(Current, FALSE, snap)

\* C19: a checkInterrupts run whose stream.interrupt is truthy starts no
\* getState call, handled or displayed or not; getState calls are started only
\* by runs whose stream.interrupt is falsy.
C19_ProbeExcludesFallback ==
    [][/\ \A snap \in StreamSnaps :
             (TruthyObj(snap.interrupt) /\ CheckInterrupts(snap))
                 => inflight' = inflight
       /\ Len(inflight') > Len(inflight)
             => \E snap \in StreamSnaps :
                   ~TruthyObj(snap.interrupt) /\ CheckInterrupts(snap)]_vars

\* C19 witness: with an id in the ledger, a record published from
\* stream.interrupt is displayed and no getState call is in flight.
C19_Witness ==
    /\ pc = "idle"
    /\ Displayed
    /\ interruptState.runId = "r1"
    /\ handledInterruptIds # {}
    /\ inflight = <<>>

\* C20: the ledger changes only when resumeRun adds the id of the displayed
\* record, when a failed stream.submit removes that id, or when a change of
\* threadId empties it; ticks, settled or rejected getState calls, the feature
\* flag and the token leave it as it is.
C20_LedgerFrame ==
    [][/\ handledInterruptIds' # handledInterruptIds
          => \/ /\ pc = "idle"
                /\ Displayed
                /\ ~TruthyObj(interruptState')
                /\ handledInterruptIds' = handledInterruptIds \cup {interruptState.interruptId}
             \/ /\ pc = "submit"
                /\ resumes'[Len(resumes')].status = "failed"
                /\ handledInterruptIds'
                     = handledInterruptIds \ {submitting.record.interruptId}
             \/ /\ threadId' # threadId
                /\ handledInterruptIds' = {}
       /\ (threadId' = threadId
           /\ (enableHITL' # enableHITL \/ accessToken' # accessToken
               \/ inflight' # inflight \/ interval' # interval))
          => handledInterruptIds' = handledInterruptIds]_vars

\* C20 witness: the HITL effect has re-run inside conversation A (a getState
\* call of A is cancelled), the detector is scheduled again and the ledger
\* still holds i1.
C20_Witness ==
    /\ threadId = "A"
    /\ enableHITL
    /\ interval # NoInterval
    /\ handledInterruptIds = {"i1"}
    /\ ~Displayed
    /\ \E k \in DOMAIN inflight : inflight[k].cancelled /\ inflight[k].threadId = "A"

\* the index of the last ai message of a list that has one
LastAi(messages) ==
    CHOOSE i \in 1..Len(messages) :
        /\ messages[i].type = "ai"
        /\ \A j \in (i + 1)..Len(messages) : messages[j].type # "ai"

\* C21: whenever the hook exposes a record, every message list with an ai
\* message renders exactly one approval panel, under its last ai message.
C21_PanelWheneverDisplayed ==
    \A messages \in MessageLists :
        (TruthyObj(ExposedInterruptState) /\ \E i \in 1..Len(messages) : messages[i].type = "ai")
            => Panels(ExposedInterruptState, messages) = {LastAi(messages)}

\* the resume requests of the current conversation for this id
Issued(id) ==
    {k \in DOMAIN resumes : resumes[k].interruptId = id /\ resumes[k].status # "old"}

\* stream.submit is being called for this id
Issuing(id) == pc = "submit" /\ submitting.record.interruptId = id

\* C22: every id in the ledger has had a resume request issued for it in the
\* current conversation, or is having one issued right now.
C22_LedgerMeansRequested ==
    \A id \in handledInterruptIds : Issued(id) # {} \/ Issuing(id)

\* C23: for every interruptId, the resume requests of the current
\* conversation that have not failed, the one being issued included, are at
\* most one.
C23_OneLiveRequestPerInterrupt ==
    \A id \in Ids :
        Cardinality({k \in Issued(id) : resumes[k].status = "sent"})
            + (IF Issuing(id) THEN 1 ELSE 0) <= 1

\* C23 witness: a second resume request for i1 was issued after the first one
\* failed.
C23_Witness ==
    /\ Len(resumes) = 2
    /\ resumes[1] = [interruptId |-> "i1", status |-> "failed"]
    /\ resumes[2] = [interruptId |-> "i1", status |-> "sent"]

\* C24: the marker is the interruptId of the displayed record when a record
\* with an id is displayed, and null in every other state.
C24_MarkerAgreesWithRecord ==
    lastInterruptId = IF Displayed /\ interruptState.interruptId # Undefined
                      THEN interruptState.interruptId
                      ELSE Null

\* C24 witness: a record without an id replaced a record on display while i1
\* is in the ledger, and the marker is null.
C24_Witness ==
    /\ Displayed
    /\ interruptState.interruptId = Undefined
    /\ lastInterruptId = Null
    /\ handledInterruptIds = {"i1"}
    /\ inflight # <<>>

\* C25: the interruptId of the displayed record, when it has one, is not in
\* the ledger.
C25_DisplayedNotHandled ==
    (Displayed /\ interruptState.interruptId # Undefined)
        => interruptState.interruptId \notin handledInterruptIds

\* C25 witness: the record of i1 is displayed again after its resume request
\* failed, while i2 is in the ledger.
C25_Witness ==
    /\ Shows("i1")
    /\ handledInterruptIds = {"i2"}
    /\ \E k \in Issued("i1") : resumes[k].status = "failed"

\* C26: a displayed record carries the current threadId, which is then not
\* null.
C26_RecordOfCurrentThread ==
    Displayed => (threadId # Null /\ interruptState.threadId = threadId)

\* C26 witness: in conversation B, entered after a resume in another
\* conversation, a rollback has put a record of B back on display.
C26_Witness ==
    /\ threadId = "B"
    /\ Displayed
    /\ interruptState.threadId = "B"
    /\ \E k \in DOMAIN resumes : resumes[k].status = "old"
    /\ \E k \in DOMAIN resumes :
          resumes[k].status = "failed" /\ resumes[k].interruptId = interruptState.interruptId

\* C27: a getState call of the running closure that resolves after a call
\* started later has already resolved changes neither the record nor the
\* marker.
C27_ResultsInStartOrder ==
    [][\A k \in DOMAIN inflight :
          (/\ inflight[k].overtaken
           /\ ~inflight[k].cancelled
           /\ inflight' = RemoveAt(inflight, k))
              => UNCHANGED <<interruptState, lastInterruptId>>]_vars

\* C28, one tick at a time: whenever a getState call of the running closure
\* succeeds and reports as its first candidate an interrupt whose id is not in
\* the ledger, a record for that interrupt is displayed when the tick ends;
\* under fair ticking this is what makes the record appear eventually.
C28_ReportedInterruptDisplayed ==
    [][\A k \in DOMAIN inflight, state \in ThreadStates :
          (/\ ~inflight[k].cancelled
           /\ HasCandidates(state)
           /\ FirstCandidate(state).id # Undefined
           /\ FirstCandidate(state).id \notin handledInterruptIds
           /\ GetStateSettles(k, state))
              => /\ TruthyObj(interruptState')
                 /\ interruptState'.interruptId = FirstCandidate(state).id
                 /\ interruptState'.threadId = threadId]_vars

\* the reconnect timers a step schedules
Scheduled == {t \in 1..MaxTimers : timers'[t].pending /\ ~timers[t].pending}

\* C29: a close event with a code other than 1000, on a socket that was not
\* disconnected and while the watcher is enabled, schedules one reconnect after
\* 3000 ms as long as fewer than 5 attempts were made, and reports onError once
\* they are used up; a close with code 1000 or after disconnect() schedules
\* nothing; an open event resets the attempts to 0; the attempts never exceed 5.
C29_ReconnectPolicy ==
    [][/\ \A s \in 1..MaxSockets, code \in CloseCodes :
             SocketCloses(s, code)
                 => LET lost == code # 1000 /\ ~sockets[s].closeCalled /\ watcherEnabled
                    IN /\ (lost /\ reconnectAttempts < 5)
                             => /\ Cardinality(Scheduled) = 1
                                /\ \A t \in Scheduled : timers'[t].delay = 3000
                                /\ reconnectAttempts' = reconnectAttempts + 1
                       /\ (code = 1000 \/ sockets[s].closeCalled) => Scheduled = {}
                       /\ (lost /\ reconnectAttempts >= 5)
                             => /\ Scheduled = {}
                                /\ onErrorCalls' = onErrorCalls + 1
       /\ \A s \in 1..MaxSockets : SocketOpens(s) => reconnectAttempts' = 0
       /\ reconnectAttempts' <= 5]_watcher

\* the sockets of the hook that are connecting or open
LiveSockets == {s \in 1..MaxSockets : sockets[s].state \in {"connecting", "open"}}

\* C30: at most one socket of the hook is connecting or open, wsRef points to
\* it, and the close event of a socket that was disconnected leaves a wsRef
\* that points to another socket as it is.
C30_OneLiveSocket ==
    /\ [](/\ Cardinality(LiveSockets) <= 1
          /\ LiveSockets # {} => wsRef \in LiveSockets)
    /\ [][\A s \in 1..MaxSockets, code \in CloseCodes :
             (/\ sockets[s].closeCalled
              /\ wsRef # 0
              /\ wsRef # s
              /\ SocketCloses(s, code))
                 => wsRef' = wsRef]_watcher

====
